---- MODULE Spec2Model ----
(***************************************************************************)
(* Model of src/app.py: the Streamlit form that collects a credential, one *)
(* product photo, a target market and an optional audience, sends one      *)
(* streaming multimodal request and relays the streamed text to the page.  *)
(*                                                                         *)
(* Text is a sequence of tokens (strings); concatenation is \o.  The       *)
(* non-ASCII literals of the source are written by their code points       *)
(* (U+901A is the character with code point 901A).                         *)
(***************************************************************************)
EXTENDS Integers, Sequences, FiniteSets, TLC

VARIABLES
    secret,           \* line 25: st.secrets.get("GEMINI_API_KEY", "")
    typed,            \* line 21: what the user typed into the key field: <<>> untouched, <<v>> typed v
    uploaded_file,    \* line 47: the uploader's file: <<>> is None, <<f>> is the file f
    uploads,          \* line 47: the files the user uploaded since the uploader was last empty
    target_country,   \* line 55: the selectbox value
    target_audience,  \* line 61: the audience text input value
    phase,            \* lines 72-160: position of the script in the generate_btn handler
    client,           \* line 86: <<>> before genai.Client(...), <<k>> a client made with key k
    calls,            \* the calls made to the provider library in this run
    status_box,       \* line 82: <<>> before st.status(...), <<[label, state, body]>> after
    messages,         \* the st.error / st.warning / st.info elements of this run
    full_response,    \* line 108: the local full_response
    placeholder,      \* line 107: the values pushed to response_placeholder; the last is on display
    received,         \* line 149: the chunks the response iterator has yielded in this run
    raised            \* line 157: <<>>, or <<m>> when the provider raised an exception with str(e) = m

inputs == <<secret, typed, uploaded_file, uploads, target_country, target_audience>>
run == <<client, calls, status_box, messages, full_response, placeholder, received, raised>>
vars == <<inputs, phase, run>>

-----------------------------------------------------------------------------
(* Bounds *)

MaxFragments == 3
MaxUploads == 2

-----------------------------------------------------------------------------
(* Values the user and the provider can supply *)

Secrets == {"", "S"}
TypedKeys == {"", "T"}

Images ==
    { [name |-> "a.jpg", type |-> "image/jpeg", data |-> "bytesA"],
      [name |-> "b.png", type |-> "image/png", data |-> "bytesB"] }

Audiences == { <<>>, <<"A">> }

NoText == [is_none |-> TRUE, text |-> <<>>]
Chunks ==
    { NoText,
      [is_none |-> FALSE, text |-> <<>>],
      [is_none |-> FALSE, text |-> <<"a">>],
      [is_none |-> FALSE, text |-> <<"b">>] }

ExceptionMessages == { <<"404 Model not found">>, <<"timeout">> }

-----------------------------------------------------------------------------
(* Literals of the source *)

Countries ==
    << <<"U+8D8AU+5357", " (", "Vietnam", ")">>,
       <<"U+6CF0U+56FD", " (", "Thailand", ")">>,
       <<"U+83F2U+5F8BU+5BBE", " (", "Philippines", ")">>,
       <<"U+9A6CU+6765U+897FU+4E9A", " (", "Malaysia", ")">>,
       <<"U+5DF4U+897F", " (", "Brazil", ")">>,
       <<"U+58A8U+897FU+54E5", " (", "Mexico", ")">>,
       <<"U+65B0U+52A0U+5761", " (", "Singapore", ")">> >>

CountrySet == { Countries[i] : i \in DOMAIN Countries }

MissingKeyMsg == <<"U+8BF7U+5148U+5728U+5DE6U+4FA7U+4FA7U+8FB9U+680FU+8F93U+5165 Google API KeyU+FF01">>
NoImageMsg == <<"U+8BF7U+5148U+4E0AU+4F20U+4E00U+5F20U+4EA7U+54C1U+56FEU+7247U+FF01">>

ThinkingLabel == <<"U+6B63U+5728U+8FDBU+884C AI U+6DF1U+5EA6U+601DU+8003...">>
GeneratingLabel == <<"U+751FU+6210U+4E2D...">>
CompleteLabel == <<"U+2705 U+751FU+6210U+5B8CU+6210U+FF01">>
ErrorLabel == <<"U+274C U+53D1U+751FU+9519U+8BEF">>

ErrorPrefix == <<"U+8FD0U+884CU+51FAU+9519: ">>
ModelHint == <<"U+5982U+679CU+63D0U+793A 404 Model not found ... gemini-2.0-flash-exp U+8BD5U+8BD5U+3002">>

Cursor == <<"U+258C">>

FallbackAudience == <<"U+901AU+7528U+53D7U+4F17">>

PromptOpen == <<"U+8FD9U+662FU+6211U+7684U+4EA7U+54C1U+56FEU+7247U+3002">>
CountryOpen == <<"U+76EEU+6807U+7AD9U+70B9U+FF1AU+3010">>
AudienceOpen == <<"U+76EEU+6807U+53D7U+4F17U+FF1AU+3010">>
SlotClose == <<"U+3011">>
PromptSteps ==
    <<"U+8BF7U+4E25U+683CU+6309U+7167 System Instruction U+7684U+6D41U+7A0BU+8FDBU+884CU+FF1A",
      "1. U+89C6U+89C9U+8BCAU+65AD",
      "2. U+8054U+7F51U+641CU+7D22U+75DBU+70B9 (U+5FC5U+987BU+4F7FU+7528 Google Search)",
      "3. U+64B0U+5199 Listing">>

ModelName == "gemini-2.0-flash-thinking-exp-1219"
SystemInstruction == "system_instruction"
SearchTool == "google_search"

-----------------------------------------------------------------------------
(* Pure helpers *)

\* the value of the key text input: its default is the secret, until the user types
api_key == IF typed = <<>> THEN secret ELSE typed[1]

\* a slip: the check looks at the configured secret, not at the field's value
MissingCredential_SecretOnly == secret = ""

MissingCredential == api_key = ""

\* a slip: the image check is left out
NoImageProvided_Skipped == FALSE

NoImageProvided == uploaded_file = <<>>

\* a slip: the audience is interpolated without the fallback
AudienceSlot_NoFallback(audience) == audience

AudienceSlot(audience) == IF audience # <<>> THEN audience ELSE FallbackAudience

user_prompt(country, audience) ==
    PromptOpen \o CountryOpen \o country \o SlotClose
        \o AudienceOpen \o AudienceSlot(audience) \o SlotClose \o PromptSteps

\* a slip: the MIME type is hard-coded instead of taken from the upload
Parts_FixedMime(file, prompt) ==
    << [kind |-> "bytes", data |-> file.data, mime_type |-> "image/jpeg"],
       [kind |-> "text", text |-> prompt] >>

Parts(file, prompt) ==
    << [kind |-> "bytes", data |-> file.data, mime_type |-> file.type],
       [kind |-> "text", text |-> prompt] >>

Request(file, country, audience) ==
    [ op |-> "generate_content_stream",
      model |-> ModelName,
      role |-> "user",
      parts |-> Parts(file, user_prompt(country, audience)),
      tools |-> <<SearchTool>>,
      system_instruction |-> SystemInstruction ]

\* "if chunk.text:" is false for None and for the empty string
HasText(chunk) == ~chunk.is_none /\ chunk.text # <<>>

\* a slip: "=" instead of "+="
Accumulate_Overwrite(buf, chunk) == chunk.text

\* line 151
Accumulate(buf, chunk) == buf \o chunk.text

\* a slip: the cursor marker is left out
Rendered_NoCursor(buf) == buf

\* line 152, the value pushed to the placeholder while streaming
Rendered(buf) == buf \o Cursor

\* a slip: the message is replaced by a classification of the failure
ErrorText_Classified(m) == ErrorPrefix \o <<"provider error">>

\* line 159
ErrorText(m) == ErrorPrefix \o m

-----------------------------------------------------------------------------
(* Initial state: the first script run, no widget touched, button not pressed *)

Init ==
    /\ secret \in Secrets
    /\ typed = <<>>
    /\ uploaded_file = <<>>
    /\ uploads = <<>>
    /\ target_country = Countries[1]
    /\ target_audience = <<>>
    /\ phase = "idle"
    /\ client = <<>>
    /\ calls = <<>>
    /\ status_box = <<>>
    /\ messages = <<>>
    /\ full_response = <<>>
    /\ placeholder = <<>>
    /\ received = <<>>
    /\ raised = <<>>

\* the script is not running: the user can act on a widget
Quiescent == phase \in {"idle", "rejected", "complete", "errored"}

\* every script run starts with an empty result column and fresh locals
FreshRun ==
    /\ client' = <<>>
    /\ calls' = <<>>
    /\ status_box' = <<>>
    /\ messages' = <<>>
    /\ full_response' = <<>>
    /\ placeholder' = <<>>
    /\ received' = <<>>
    /\ raised' = <<>>

\* a widget change re-runs the script with generate_btn = False
Rerun == phase' = "idle" /\ FreshRun

-----------------------------------------------------------------------------
(* Widget interactions *)

TypeKey(v) ==
    /\ Quiescent
    /\ typed # <<v>>
    /\ typed' = <<v>>
    /\ UNCHANGED <<secret, uploaded_file, uploads, target_country, target_audience>>
    /\ Rerun

Upload(f) ==
    /\ Quiescent
    /\ Len(uploads) < MaxUploads
    /\ uploaded_file' = <<f>>
    /\ uploads' = Append(uploads, f)
    /\ UNCHANGED <<secret, typed, target_country, target_audience>>
    /\ Rerun

RemoveFile ==
    /\ Quiescent
    /\ uploaded_file # <<>>
    /\ uploaded_file' = <<>>
    /\ uploads' = <<>>
    /\ UNCHANGED <<secret, typed, target_country, target_audience>>
    /\ Rerun

SelectCountry(c) ==
    /\ Quiescent
    /\ c # target_country
    /\ target_country' = c
    /\ UNCHANGED <<secret, typed, uploaded_file, uploads, target_audience>>
    /\ Rerun

TypeAudience(a) ==
    /\ Quiescent
    /\ a # target_audience
    /\ target_audience' = a
    /\ UNCHANGED <<secret, typed, uploaded_file, uploads, target_country>>
    /\ Rerun

-----------------------------------------------------------------------------
(* The generate_btn handler *)

\* the button is pressed: the script re-runs with generate_btn = True
Submit ==
    /\ Quiescent
    /\ phase' = "validating"
    /\ FreshRun
    /\ UNCHANGED inputs

\* a slip: st.stop() is missing after the credential error, the script goes on
Validate_NoStop ==
    /\ phase = "validating"
    /\ IF NoImageProvided
         THEN /\ messages' = Append(messages, [kind |-> "warning", text |-> NoImageMsg])
              /\ phase' = "rejected"
              /\ UNCHANGED status_box
         ELSE /\ messages' = IF MissingCredential
                                THEN Append(messages, [kind |-> "error", text |-> MissingKeyMsg])
                                ELSE messages
              /\ status_box' = <<[label |-> ThinkingLabel, state |-> "running", body |-> <<>>]>>
              /\ phase' = "sending"
    /\ UNCHANGED <<inputs, client, calls, full_response, placeholder, received, raised>>

\* lines 73-82
Validate ==
    /\ phase = "validating"
    /\ IF MissingCredential
         THEN /\ messages' = Append(messages, [kind |-> "error", text |-> MissingKeyMsg])
              /\ phase' = "rejected"
              /\ UNCHANGED status_box
         ELSE IF NoImageProvided
         THEN /\ messages' = Append(messages, [kind |-> "warning", text |-> NoImageMsg])
              /\ phase' = "rejected"
              /\ UNCHANGED status_box
         ELSE /\ status_box' = <<[label |-> ThinkingLabel, state |-> "running", body |-> <<>>]>>
              /\ phase' = "sending"
              /\ UNCHANGED messages
    /\ UNCHANGED <<inputs, client, calls, full_response, placeholder, received, raised>>

\* lines 86-108
Prepare ==
    /\ phase = "sending"
    /\ client = <<>>
    /\ client' = <<api_key>>
    /\ calls' = Append(calls, [op |-> "Client", api_key |-> api_key])
    /\ status_box' =
         <<[status_box[1] EXCEPT !.body =
              <<"U+6B63U+5728U+8BC6U+522BU+56FEU+7247U+7EC6U+8282...",
                "U+6B63U+5728U+8054U+7F51U+68C0U+7D22 ">> \o target_country
                    \o <<" U+7684U+5E02U+573AU+75DBU+70B9...">>]>>
    /\ full_response' = <<>>
    /\ placeholder' = <<>>
    /\ UNCHANGED <<inputs, phase, messages, received, raised>>

\* a slip: the handler reports the error and leaves the status box running
Except_NoStatusFlip(m) ==
    /\ status_box' = status_box
    /\ messages' = messages \o << [kind |-> "error", text |-> ErrorText(m)],
                                  [kind |-> "info", text |-> ModelHint] >>
    /\ raised' = <<m>>
    /\ phase' = "errored"

\* lines 157-160
Except(m) ==
    /\ status_box' = <<[status_box[1] EXCEPT !.label = ErrorLabel, !.state = "error"]>>
    /\ messages' = messages \o << [kind |-> "error", text |-> ErrorText(m)],
                                  [kind |-> "info", text |-> ModelHint] >>
    /\ raised' = <<m>>
    /\ phase' = "errored"

\* lines 112-148, the call returns the response iterator
CallOk ==
    /\ phase = "sending"
    /\ client # <<>>
    /\ calls' = Append(calls, Request(uploaded_file[1], target_country, target_audience))
    /\ status_box' = <<[status_box[1] EXCEPT !.label = GeneratingLabel, !.state = "running"]>>
    /\ phase' = "streaming"
    /\ UNCHANGED <<inputs, client, messages, full_response, placeholder, received, raised>>

\* lines 112-145 and 157-160, the call raises
CallRaise(m) ==
    /\ phase = "sending"
    /\ client # <<>>
    /\ calls' = Append(calls, Request(uploaded_file[1], target_country, target_audience))
    /\ Except(m)
    /\ UNCHANGED <<inputs, client, full_response, placeholder, received>>

\* lines 149-152, the iterator yields a chunk
Recv(chunk) ==
    /\ phase = "streaming"
    /\ Len(received) < MaxFragments
    /\ received' = Append(received, chunk)
    /\ IF HasText(chunk)
         THEN /\ full_response' = Accumulate(full_response, chunk)
              /\ placeholder' = Append(placeholder, Rendered(full_response'))
         ELSE UNCHANGED <<full_response, placeholder>>
    /\ UNCHANGED <<inputs, phase, client, calls, status_box, messages, raised>>

\* lines 154-155, the iterator is exhausted
StreamEnd ==
    /\ phase = "streaming"
    /\ placeholder' = Append(placeholder, full_response)
    /\ status_box' = <<[status_box[1] EXCEPT !.label = CompleteLabel, !.state = "complete"]>>
    /\ phase' = "complete"
    /\ UNCHANGED <<inputs, client, calls, messages, full_response, received, raised>>

\* lines 149 and 157-160, the iterator raises
StreamRaise(m) ==
    /\ phase = "streaming"
    /\ Except(m)
    /\ UNCHANGED <<inputs, client, calls, full_response, placeholder, received>>

Next ==
    \/ \E v \in TypedKeys : TypeKey(v)
    \/ \E f \in Images : Upload(f)
    \/ RemoveFile
    \/ \E c \in CountrySet : SelectCountry(c)
    \/ \E a \in Audiences : TypeAudience(a)
    \/ Submit
    \/ Validate
    \/ Prepare
    \/ CallOk
    \/ \E m \in ExceptionMessages : CallRaise(m)
    \/ \E chunk \in Chunks : Recv(chunk)
    \/ StreamEnd
    \/ \E m \in ExceptionMessages : StreamRaise(m)

Spec == Init /\ [][Next]_vars

\* the steps of the running handler; the script blocks until it has finished
Handler ==
    \/ Validate
    \/ Prepare
    \/ CallOk
    \/ \E m \in ExceptionMessages : CallRaise(m)
    \/ \E chunk \in Chunks : Recv(chunk)
    \/ StreamEnd
    \/ \E m \in ExceptionMessages : StreamRaise(m)

\* a started handler keeps running, and the provider's stream is finite
\* (at most MaxFragments chunks, then it ends or raises)
FairSpec == Spec /\ WF_vars(Handler)

-----------------------------------------------------------------------------
(* Vocabulary of the properties *)

\* the text a chunk carries; a chunk without text carries none
TextOf(chunk) == IF chunk.is_none THEN <<>> ELSE chunk.text

\* the concatenation of the texts of a sequence of chunks, in order
RECURSIVE Joined(_)
Joined(cs) ==
    IF cs = <<>> THEN <<>>
    ELSE Joined(SubSeq(cs, 1, Len(cs) - 1)) \o TextOf(cs[Len(cs)])

\* s occurs in t as a contiguous run of tokens
IsInfix(s, t) ==
    \E i \in 0..(Len(t) - Len(s)) : SubSeq(t, i + 1, i + Len(s)) = s

ClientCalls == { i \in DOMAIN calls : calls[i].op = "Client" }
StreamCalls == { i \in DOMAIN calls : calls[i].op = "generate_content_stream" }

\* the handler has gone past validation in this run
PastValidation == phase \notin {"idle", "validating"}

\* the text of the last part of the request
TextPart(req) == req.parts[Len(req.parts)].text

\* one push per chunk that carries non-empty text: the buffer so far plus the marker
RECURSIVE PushesFor(_)
PushesFor(cs) ==
    IF cs = <<>> THEN <<>>
    ELSE LET front == PushesFor(SubSeq(cs, 1, Len(cs) - 1))
         IN  IF TextOf(cs[Len(cs)]) # <<>>
               THEN Append(front, Joined(cs) \o <<"U+258C">>)
               ELSE front

\* the pushes made while the stream was being read (the final push excluded)
StreamPushes ==
    IF phase = "complete" THEN SubSeq(placeholder, 1, Len(placeholder) - 1) ELSE placeholder

-----------------------------------------------------------------------------
(* C1: a submit with an empty credential ends rejected with the credential *)
(* error shown and makes no call to the provider (no client, no request), *)
(* with or without an uploaded image. *)
C1_EmptyCredentialNoCall ==
    (PastValidation /\ api_key = "") =>
        /\ phase = "rejected"
        /\ calls = <<>>
        /\ client = <<>>
        /\ messages = <<[kind |-> "error", text |-> MissingKeyMsg]>>

C1_Witness == phase = "rejected" /\ api_key = "" /\ uploaded_file # <<>>

(* C2: a submit with no uploaded image ends rejected with one validation *)
(* message shown and makes no call to the provider, whether the credential *)
(* is empty or not. *)
C2_NoImageNoCall ==
    (PastValidation /\ uploaded_file = <<>>) =>
        /\ phase = "rejected"
        /\ calls = <<>>
        /\ client = <<>>
        /\ messages = IF api_key = ""
                        THEN <<[kind |-> "error", text |-> MissingKeyMsg]>>
                        ELSE <<[kind |-> "warning", text |-> NoImageMsg]>>

C2_Witness == phase = "rejected" /\ api_key # "" /\ uploaded_file = <<>>

(* C3 as stated: with N >= 1 images uploaded, the request holds N binary *)
(* parts, in upload order, each with its image's MIME type, then one text *)
(* part. *)
C3_Original ==
    \A i \in StreamCalls :
        LET parts == calls[i].parts
            N == Len(uploads)
        IN  N >= 1 =>
              /\ Len(parts) = N + 1
              /\ \A j \in 1..N :
                    parts[j] = [kind |-> "bytes", data |-> uploads[j].data,
                                mime_type |-> uploads[j].type]
              /\ parts[N + 1].kind = "text"

(* C3 amended: the request holds exactly one binary part, the bytes and the *)
(* MIME type of the one image the uploader holds (the last one uploaded), *)
(* followed by exactly one text part. *)
C3_OneImagePart ==
    \A i \in StreamCalls :
        LET parts == calls[i].parts
        IN  /\ Len(parts) = 2
            /\ uploaded_file = <<uploads[Len(uploads)]>>
            /\ parts[1] = [kind |-> "bytes", data |-> uploaded_file[1].data,
                           mime_type |-> uploaded_file[1].type]
            /\ parts[2].kind = "text"

C3_Witness ==
    /\ StreamCalls # {}
    /\ Len(uploads) = 2
    /\ uploads[1] # uploads[2]
    /\ uploaded_file[1].type = "image/png"

(* C4: when the stream ends without raising, full_response and the text on *)
(* display both equal the concatenation of the fragments received, in *)
(* arrival order, fragments without text included. *)
C4_CompleteBufferIsConcatenation ==
    phase = "complete" =>
        /\ full_response = Joined(received)
        /\ placeholder # <<>>
        /\ placeholder[Len(placeholder)] = Joined(received)

C4_Witness ==
    /\ phase = "complete"
    /\ Len(received) = 3
    /\ received[1].text = <<"b">>
    /\ received[2].text = <<>>
    /\ received[3].text = <<"a">>

(* C5: when the provider raises after k >= 0 fragments, the status box is *)
(* in the error state, not complete, and full_response is the concatenation *)
(* of those k fragments. *)
C5_ErrorKeepsBuffer ==
    phase = "errored" =>
        /\ raised # <<>>
        /\ status_box[1].state = "error"
        /\ full_response = Joined(received)

C5_Witness ==
    /\ phase = "errored"
    /\ Len(received) = 2
    /\ full_response = <<"a", "b">>

(* C6 as stated: with an empty audience the text part contains the literal *)
(* "generic audience"; with a non-empty audience it contains the audience; *)
(* in both cases it contains the market label. *)
C6_Original ==
    \A i \in StreamCalls :
        LET text == TextPart(calls[i])
        IN  /\ IsInfix(target_country, text)
            /\ IF target_audience = <<>>
                 THEN IsInfix(<<"generic audience">>, text)
                 ELSE IsInfix(target_audience, text)

(* C6 amended: the audience slot of the text part holds the literal *)
(* U+901A U+7528 U+53D7 U+4F17 when the audience is empty and the audience *)
(* string itself otherwise; the text part contains the market label. *)
C6_AudienceSlot ==
    \A i \in StreamCalls :
        LET text == TextPart(calls[i])
            slot == IF target_audience = <<>>
                      THEN <<"U+901AU+7528U+53D7U+4F17">>
                      ELSE target_audience
        IN  /\ IsInfix(target_country, text)
            /\ IsInfix(<<"U+76EEU+6807U+53D7U+4F17U+FF1AU+3010">> \o slot \o <<"U+3011">>, text)

C6_Witness ==
    /\ StreamCalls # {}
    /\ target_audience = <<>>
    /\ target_country[3] = "Vietnam"

(* C7 as stated: idle -> validating -> (rejected | sending) -> streaming -> *)
(* (complete | errored); errored and complete only from streaming, sending *)
(* always followed by streaming, and a rejected or finished run moves only *)
(* on the next submit.  A widget change starts a new script run without a *)
(* submit; it shows the idle page and is no step of the finished request. *)
C7_Original ==
    [][ /\ phase = "idle" => phase' \in {"idle", "validating"}
        /\ phase = "validating" => phase' \in {"rejected", "sending"}
        /\ phase = "sending" => phase' \in {"sending", "streaming"}
        /\ phase = "streaming" => phase' \in {"streaming", "complete", "errored"}
        /\ phase \in {"rejected", "complete", "errored"} =>
              \/ phase' = "validating" /\ inputs' = inputs
              \/ phase' = "idle" /\ inputs' # inputs ]_vars

(* C7 amended: as stated, except that errored is reached from streaming or *)
(* directly from sending (the outbound call itself raises), so sending is *)
(* followed by streaming or errored; rejected is reached exactly when the *)
(* credential is empty or no image is uploaded; every submit reaches one of *)
(* rejected, complete or errored. *)
C7_StateMachine ==
    /\ [][ /\ phase = "idle" => phase' \in {"idle", "validating"}
           /\ phase = "validating" =>
                 /\ phase' \in {"rejected", "sending"}
                 /\ phase' = "rejected" <=> (api_key = "" \/ uploaded_file = <<>>)
           /\ phase = "sending" => phase' \in {"sending", "streaming", "errored"}
           /\ phase = "streaming" => phase' \in {"streaming", "complete", "errored"}
           /\ phase \in {"rejected", "complete", "errored"} =>
                 \/ phase' = "validating" /\ inputs' = inputs
                 \/ phase' = "idle" /\ inputs' # inputs ]_vars
    /\ (phase = "validating") ~> (phase \in {"rejected", "complete", "errored"})

C7_Witness == phase = "errored" /\ received = <<>> /\ Len(calls) = 2

(* C8 as stated: when the provider raises with message m, the error text *)
(* shown is exactly m. *)
C8_Original ==
    phase = "errored" =>
        \E i \in DOMAIN messages :
            messages[i].kind = "error" /\ messages[i].text = raised[1]

(* C8 amended: the error text shown is the fixed label U+8FD0 U+884C U+51FA *)
(* U+9519 ": " followed by m verbatim, and a fixed hint follows it. *)
C8_PrefixedMessage ==
    phase = "errored" =>
        /\ Len(messages) = 2
        /\ messages[1] = [kind |-> "error",
                          text |-> <<"U+8FD0U+884CU+51FAU+9519: ">> \o raised[1]]
        /\ messages[2].kind = "info"

C8_Witness == phase = "errored" /\ raised = <<<<"404 Model not found">>>>

(* C9: the client is created with the secret GEMINI_API_KEY when it is *)
(* non-empty, whatever the user typed, and with the typed value otherwise. *)
C9_SecretPrecedence ==
    \A i \in ClientCalls :
        calls[i].api_key = IF secret # "" THEN secret
                           ELSE IF typed = <<>> THEN "" ELSE typed[1]

(* C10 as stated: every received fragment is followed by one push of the *)
(* buffer so far plus the marker; after completion the display shows the *)
(* final buffer without the marker. *)
C10_Original ==
    phase \in {"streaming", "complete", "errored"} =>
        /\ Len(StreamPushes) = Len(received)
        /\ \A k \in 1..Len(received) :
              StreamPushes[k] = Joined(SubSeq(received, 1, k)) \o <<"U+258C">>
        /\ phase = "complete" => placeholder[Len(placeholder)] = Joined(received)

(* C10 amended: every received fragment that carries non-empty text is *)
(* followed by one push of the buffer so far plus the marker, a fragment *)
(* without text causes no push; after completion the display shows the *)
(* final buffer without the marker and nothing is pushed after it. *)
C10_PushPerTextFragment ==
    phase \in {"streaming", "complete", "errored"} =>
        /\ StreamPushes = PushesFor(received)
        /\ phase = "complete" =>
              placeholder = Append(PushesFor(received), Joined(received))

C10_Witness ==
    /\ phase = "complete"
    /\ Len(received) = 3
    /\ received[1].text = <<"a">>
    /\ received[2] = NoText
    /\ received[3].text = <<"b">>

====
